---- MODULE Spec2Model ----
(***************************************************************************)
(* Lifecycle synchronisation of scheduler/models.py: BaseJob.save and      *)
(* BaseJob.delete keep the rq-scheduler registrations of a job record in   *)
(* step with the record.  The in-memory model instance of a record, its    *)
(* database row, and the scheduled-jobs set behind every configured queue  *)
(* are the state.  Every backend call may fail (connection error); a       *)
(* failed call has no effect on the backend.                               *)
(***************************************************************************)
EXTENDS Integers, Sequences, FiniteSets, TLC

\* ---------------------------------------------------------------- bounds
\* job ids the backend can hand out (rq job ids are fresh uuids)
MaxHandles == 3
\* instants a scheduled_time and the validation instant are drawn from
MaxTime == 6
\* magnitudes of RepeatableJob.interval
MaxMagnitude == 15

\* ------------------------------------------------------------- constants
\* job_id = None
None == 0
\* the record names in play (BaseJob.name is unique)
Names == {"a"}
\* settings.RQ_QUEUES.keys(); each queue has its own connection
Queues == {"default", "high"}
\* a queue name that is not configured
BadQueue == "bogus"
\* the concrete model classes
JobClasses == {"ScheduledJob", "RepeatableJob", "CronJob"}
Handles == 1..MaxHandles
\* no database row
Absent == [absent |-> TRUE]
\* timeout = None (0 is a timeout of its own)
NoTimeout == -1
\* the values of the timeout field in play
Timeouts == {NoTimeout, 0, 30}
\* the requests that run at the same time, and the records they work on
Requests == {"r1", "r2"}
Records == {"a", "b"}
\* RepeatableJob.UNITS
Units == {"minutes", "hours", "days", "weeks"}
\* datetime.timedelta holds at most this many days
MaxTimedeltaDays == 999999999
\* the instants and the intervals tried: the small ones, and for each unit
\* counted in days the first magnitude timedelta cannot hold
Times == 0..MaxTime
Intervals ==
    ((0..MaxMagnitude) \X Units)
        \cup {<<MaxTimedeltaDays \div 7 + 1, "weeks">>,
              <<MaxTimedeltaDays + 1, "days">>}

VARIABLES
    mem,        \* mem[n]: the model instance of record n (its fields)
    store,      \* store[n]: the database row of record n, or Absent
    scheduled,  \* scheduled[q]: the job ids in the scheduler of queue q
    madeFor,    \* madeFor[h]: the record job h was enqueued for ("": none yet)
    nextId,     \* the next job id the backend hands out
    last,       \* the last operation: its record, outcome and the calls it made
    hist,       \* hist[n]: how far record n is through the enable/disable
                \* round trip of the tests, and whether a failed save of it
                \* awaits its retry
    req         \* req[p]: the save or delete that request p is running, with
                \* the instance it loaded and the statement it has reached

vars == <<mem, store, scheduled, madeFor, nextId, last, hist, req>>

\* ------------------------------------------------------------ the record
\* a model instance as constructed: job_id None, enabled default True
NewJob(cls, q) ==
    [cls |-> cls, enabled |-> TRUE, queue |-> q, callable |-> "ok",
     when |-> "ok", timeout |-> NoTimeout, job_id |-> None]

\* BaseJob.scheduler: django_rq.get_scheduler(self.queue)
scheduler(sch, o) == sch[o.queue]

\* is_scheduled answered from job_id alone, without the scheduler
is_scheduled_by_job_id(sch, o) == o.job_id # None

\* BaseJob.is_scheduled: self.job_id in self.scheduler()
is_scheduled(sch, o) == o.job_id \in scheduler(sch, o)

\* is_schedulable without the test of job_id
is_schedulable_ignores_job_id(o) == o.enabled

\* BaseJob.is_schedulable
is_schedulable(o) == IF o.job_id # None THEN FALSE ELSE o.enabled

\* the outcome of a step: the instance, the schedulers, the calls made, the
\* exception raised ("ok": none) and whether a job was enqueued
Outcome(o, sch, calls, result, made) ==
    [obj |-> o, sch |-> sch, calls |-> calls, result |-> result, made |-> made]

\* unschedule with the assignment job_id = None moved under the if
unschedule_keeps_job_id(sch, o, fail) ==
    IF o.queue \notin Queues
    THEN Outcome(o, sch, <<>>, "KeyError", FALSE)
    ELSE IF fail = "contains"
    THEN Outcome(o, sch, <<"contains">>, "BackendUnavailable", FALSE)
    ELSE IF is_scheduled(sch, o)
    THEN IF fail = "cancel"
         THEN Outcome(o, sch, <<"contains", "cancel">>,
                      "BackendUnavailable", FALSE)
         ELSE Outcome([o EXCEPT !.job_id = None],
                      [sch EXCEPT ![o.queue] = @ \ {o.job_id}],
                      <<"contains", "cancel">>, "ok", FALSE)
    ELSE Outcome(o, sch, <<"contains">>, "ok", FALSE)

\* unschedule without the cancel: job_id is cleared, the job stays scheduled
unschedule_forgets_cancel(sch, o, fail) ==
    IF o.queue \notin Queues
    THEN Outcome(o, sch, <<>>, "KeyError", FALSE)
    ELSE IF fail = "contains"
    THEN Outcome(o, sch, <<"contains">>, "BackendUnavailable", FALSE)
    ELSE Outcome([o EXCEPT !.job_id = None], sch, <<"contains">>, "ok", FALSE)

\* unschedule with the cancel made whether or not the job is scheduled
unschedule_always_cancels(sch, o, fail) ==
    IF o.queue \notin Queues
    THEN Outcome(o, sch, <<>>, "KeyError", FALSE)
    ELSE IF fail = "contains"
    THEN Outcome(o, sch, <<"contains">>, "BackendUnavailable", FALSE)
    ELSE IF fail = "cancel"
    THEN Outcome(o, sch, <<"contains", "cancel">>, "BackendUnavailable", FALSE)
    ELSE Outcome([o EXCEPT !.job_id = None],
                 [sch EXCEPT ![o.queue] = @ \ {o.job_id}],
                 <<"contains", "cancel">>, "ok", FALSE)

\* BaseJob.unschedule.  fail names the backend call that meets a connection
\* error ("none": no call fails).
unschedule(sch, o, fail) ==
    IF o.queue \notin Queues
    THEN Outcome(o, sch, <<>>, "KeyError", FALSE)
    ELSE IF fail = "contains"
    THEN Outcome(o, sch, <<"contains">>, "BackendUnavailable", FALSE)
    ELSE IF is_scheduled(sch, o)
    THEN IF fail = "cancel"
         THEN Outcome(o, sch, <<"contains", "cancel">>,
                      "BackendUnavailable", FALSE)
         ELSE Outcome([o EXCEPT !.job_id = None],
                      [sch EXCEPT ![o.queue] = @ \ {o.job_id}],
                      <<"contains", "cancel">>, "ok", FALSE)
    ELSE Outcome([o EXCEPT !.job_id = None], sch, <<"contains">>, "ok", FALSE)

\* the enqueue call of a model class
EnqueueCall(cls) ==
    CASE cls = "ScheduledJob" -> "enqueue_at"
      [] cls = "RepeatableJob" -> "schedule"
      [] cls = "CronJob" -> "cron"

\* the exception raised while the enqueue call and its arguments are
\* evaluated, before the backend is reached: BaseJob.schedule looks the
\* scheduler up before it resolves the callable, the other two resolve the
\* callable first; cron() parses the cron string
ArgumentError(o) ==
    IF o.cls = "ScheduledJob"
    THEN IF o.queue \notin Queues THEN "KeyError"
         ELSE IF o.callable # "ok" THEN "ImportError"
         ELSE "ok"
    ELSE IF o.callable # "ok" THEN "ImportError"
         ELSE IF o.queue \notin Queues THEN "KeyError"
         ELSE IF o.cls = "CronJob" /\ o.when # "ok" THEN "ValueError"
         ELSE "ok"

\* the timeout keyword of the enqueue call: "if self.timeout:
\* kwargs['timeout'] = self.timeout" (NoTimeout: the keyword is not passed)
timeout_kwarg(o) ==
    IF o.timeout # NoTimeout /\ o.timeout # 0 THEN o.timeout ELSE NoTimeout

\* BaseJob.schedule / RepeatableJob.schedule / CronJob.schedule.  nid is the
\* job id the backend would hand out.
schedule(sch, o, nid, fail) ==
    IF is_schedulable(o) = FALSE
    THEN Outcome(o, sch, <<>>, "ok", FALSE)
    ELSE IF ArgumentError(o) # "ok"
    THEN Outcome(o, sch, <<>>, ArgumentError(o), FALSE)
    ELSE IF fail = "enqueue"
    THEN Outcome(o, sch, <<EnqueueCall(o.cls)>>, "BackendUnavailable", FALSE)
    ELSE Outcome([o EXCEPT !.job_id = nid],
                 [sch EXCEPT ![o.queue] = @ \cup {nid}],
                 <<EnqueueCall(o.cls)>>, "ok", TRUE)

\* save with the database write moved before the sync
save_writes_first(sch, o, nid, fail) ==
    LET u == unschedule(sch, o, fail) IN
    IF u.result # "ok"
    THEN Outcome(u.obj, u.sch, <<"db_save">> \o u.calls, u.result, FALSE)
    ELSE LET s == IF u.obj.enabled
                  THEN schedule(u.sch, u.obj, nid, fail)
                  ELSE Outcome(u.obj, u.sch, <<>>, "ok", FALSE)
         IN Outcome(s.obj, s.sch, <<"db_save">> \o u.calls \o s.calls,
                    s.result, s.made)

\* BaseJob.save: unschedule, schedule if enabled, then the database write
\* ("db_save", the last call).  An exception of a step ends the save there.
save(sch, o, nid, fail) ==
    LET u == unschedule(sch, o, fail) IN
    IF u.result # "ok"
    THEN u
    ELSE LET s == IF u.obj.enabled
                  THEN schedule(u.sch, u.obj, nid, fail)
                  ELSE Outcome(u.obj, u.sch, <<>>, "ok", FALSE)
         IN IF s.result # "ok"
            THEN Outcome(s.obj, s.sch, u.calls \o s.calls, s.result, FALSE)
            ELSE Outcome(s.obj, s.sch, u.calls \o s.calls \o <<"db_save">>,
                         "ok", s.made)

\* delete with the database delete moved before the unschedule
delete_removes_first(sch, o, fail) ==
    LET u == unschedule(sch, o, fail) IN
    Outcome(u.obj, u.sch, <<"db_delete">> \o u.calls, u.result, FALSE)

\* BaseJob.delete: unschedule, then the database delete ("db_delete")
delete(sch, o, fail) ==
    LET u == unschedule(sch, o, fail) IN
    IF u.result # "ok"
    THEN u
    ELSE Outcome(u.obj, u.sch, u.calls \o <<"db_delete">>, "ok", FALSE)

\* the database after the calls of an operation on record n
Written(st, n, r) ==
    IF \E i \in 1..Len(r.calls) : r.calls[i] = "db_save"
    THEN [st EXCEPT ![n] = r.obj]
    ELSE IF \E i \in 1..Len(r.calls) : r.calls[i] = "db_delete"
    THEN [st EXCEPT ![n] = Absent]
    ELSE st

\* ------------------------------------------------- the pure computations
\* JobAdminForm.clean_scheduled_time: "if data < now(): raise"
clean_scheduled_time(data, now) ==
    IF data < now THEN "ValidationError" ELSE "ok"

\* timedelta with hours counted as minutes
timedelta_hours_as_minutes(m, unit) ==
    LET days == CASE unit = "weeks" -> 7 * m
                  [] unit = "days" -> m
                  [] OTHER -> 0
        secs == CASE unit = "hours" -> m * 60
                  [] unit = "minutes" -> m * 60
                  [] OTHER -> 0
    IN [days |-> days + secs \div 86400, seconds |-> secs % 86400]

\* datetime.timedelta(**{unit: m}): weeks and days count days, hours and
\* minutes count seconds, carried into days
timedelta(m, unit) ==
    LET days == CASE unit = "weeks" -> 7 * m
                  [] unit = "days" -> m
                  [] OTHER -> 0
        secs == CASE unit = "hours" -> m * 3600
                  [] unit = "minutes" -> m * 60
                  [] OTHER -> 0
    IN [days |-> days + secs \div 86400, seconds |-> secs % 86400]

\* RepeatableJob.interval_seconds: timedelta(**kwargs).total_seconds();
\* timedelta raises OverflowError beyond MaxTimedeltaDays
interval_seconds(m, unit) ==
    LET td == timedelta(m, unit) IN
    IF td.days > MaxTimedeltaDays
    THEN [raised |-> "OverflowError", seconds |-> 0]
    ELSE [raised |-> "ok", seconds |-> td.days * 86400 + td.seconds]

\* ------------------------------------------------------ the test scenario
\* tests.py test_save_enabled / test_save_disabled: a new enabled record is
\* saved ("on"), disabled ("disabling") and saved ("off"), then enabled
\* again ("enabling") and saved ("back").  first is the job id of the first
\* save.  Anything else done to the record leaves the scenario ("void").
TripSave(h, wasNew, o, r) ==
    IF r.result # "ok" THEN [h EXCEPT !.trip = "void", !.first = None]
    ELSE IF h.trip = "new" /\ wasNew /\ o.enabled
    THEN [h EXCEPT !.trip = "on", !.first = r.obj.job_id]
    ELSE IF h.trip = "disabling" THEN [h EXCEPT !.trip = "off"]
    ELSE IF h.trip = "enabling" THEN [h EXCEPT !.trip = "back"]
    ELSE [h EXCEPT !.trip = "void", !.first = None]

TripToggle(h) ==
    IF h.trip = "on" THEN [h EXCEPT !.trip = "disabling"]
    ELSE IF h.trip = "off" THEN [h EXCEPT !.trip = "enabling"]
    ELSE IF h.trip = "new" THEN h
    ELSE [h EXCEPT !.trip = "void", !.first = None]

TripOther(h) ==
    IF h.trip = "new" THEN h ELSE [h EXCEPT !.trip = "void", !.first = None]

\* an edited record is another input: its next save is not a retry
Edited(h) == [h EXCEPT !.retry = "none"]

\* a save of an enabled record that met a connection error awaits its retry
\* ("pending"); the next save that completes is the retry ("done")
RetrySave(h, o, r) ==
    [h EXCEPT !.retry = IF r.result = "ok"
                        THEN IF @ = "pending" THEN "done" ELSE "none"
                        ELSE IF r.result = "BackendUnavailable" /\ o.enabled
                        THEN "pending" ELSE @]

\* ------------------------------------------------------------ the machine
\* a request that is not running
Idle ==
    [pc |-> "idle", op |-> "", name |-> "", insert |-> FALSE, live |-> FALSE,
     obj |-> NewJob("ScheduledJob", "default")]

Init ==
    /\ \E cls \in JobClasses :
           mem = [n \in Names |-> NewJob(cls, "default")]
    /\ store = [n \in Names |-> Absent]
    /\ scheduled = [q \in Queues |-> {}]
    /\ madeFor = [h \in Handles |-> ""]
    /\ nextId = 1
    /\ last = [op |-> "none", name |-> "", result |-> "ok", calls |-> <<>>,
               old |-> None]
    /\ hist = [n \in Names |-> [trip |-> "new", first |-> None,
                                retry |-> "none"]]
    /\ req = [p \in Requests |-> Idle]

\* record.save()
Save(n) ==
    \E fail \in {"none", "contains", "cancel", "enqueue"} :
        /\ nextId <= MaxHandles
        /\ LET r == save(scheduled, mem[n], nextId, fail) IN
            /\ mem' = [mem EXCEPT ![n] = r.obj]
            /\ scheduled' = r.sch
            /\ store' = Written(store, n, r)
            /\ madeFor' = IF r.made THEN [madeFor EXCEPT ![nextId] = n]
                          ELSE madeFor
            /\ nextId' = IF r.made THEN nextId + 1 ELSE nextId
            /\ last' = [op |-> "save", name |-> n, result |-> r.result,
                        calls |-> r.calls, old |-> mem[n].job_id,
                        sent |-> timeout_kwarg(mem[n])]
            /\ hist' = [hist EXCEPT ![n] =
                   RetrySave(TripSave(@, store[n] = Absent, mem[n], r),
                             mem[n], r)]
            /\ UNCHANGED req

\* record.delete() of a stored record
Delete(n) ==
    \E fail \in {"none", "contains", "cancel"} :
        /\ store[n] # Absent
        /\ LET r == delete(scheduled, mem[n], fail) IN
            /\ mem' = [mem EXCEPT ![n] = r.obj]
            /\ scheduled' = r.sch
            /\ store' = Written(store, n, r)
            /\ last' = [op |-> "delete", name |-> n, result |-> r.result,
                        calls |-> r.calls, old |-> mem[n].job_id]
            /\ hist' = [hist EXCEPT ![n] =
                   IF r.result = "ok"
                   THEN [trip |-> "new", first |-> None, retry |-> "none"]
                   ELSE TripOther(@)]
            /\ UNCHANGED <<madeFor, nextId, req>>

\* the last operation was an edit or a reload of record n
Touched(n, op) ==
    last' = [op |-> op, name |-> n, result |-> "ok", calls |-> <<>>,
             old |-> None]

\* the caller edits a field of the instance: enabled
SetEnabled(n) ==
    /\ mem' = [mem EXCEPT ![n].enabled = ~@]
    /\ Touched(n, "edit")
    /\ hist' = [hist EXCEPT ![n] = Edited(TripToggle(@))]
    /\ UNCHANGED <<store, scheduled, madeFor, nextId, req>>

\* ... queue, to another configured queue or to one that is not configured
SetQueue(n) ==
    \E q \in Queues \cup {BadQueue} :
        /\ q # mem[n].queue
        /\ mem' = [mem EXCEPT ![n].queue = q]
        /\ Touched(n, "edit")
        /\ hist' = [hist EXCEPT ![n] = Edited(TripOther(@))]
        /\ UNCHANGED <<store, scheduled, madeFor, nextId, req>>

\* ... callable, to a path that resolves to a callable or to one that does not
SetCallable(n) ==
    /\ mem' = [mem EXCEPT ![n].callable = IF @ = "ok" THEN "bad" ELSE "ok"]
    /\ Touched(n, "edit")
    /\ hist' = [hist EXCEPT ![n] = Edited(TripOther(@))]
    /\ UNCHANGED <<store, scheduled, madeFor, nextId, req>>

\* ... scheduled_time (future: "ok", past: "bad") or cron_string (parses:
\* "ok", does not: "bad")
SetWhen(n) ==
    /\ mem' = [mem EXCEPT ![n].when = IF @ = "ok" THEN "bad" ELSE "ok"]
    /\ Touched(n, "edit")
    /\ hist' = [hist EXCEPT ![n] = Edited(TripOther(@))]
    /\ UNCHANGED <<store, scheduled, madeFor, nextId, req>>

\* the instance is loaded again from its row
Reload(n) ==
    /\ store[n] # Absent
    /\ mem' = [mem EXCEPT ![n] = store[n]]
    /\ Touched(n, "reload")
    /\ hist' = [hist EXCEPT ![n] = TripOther(@)]
    /\ UNCHANGED <<store, scheduled, madeFor, nextId, req>>

\* ... timeout
SetTimeout(n) ==
    \E t \in Timeouts :
        /\ t # mem[n].timeout
        /\ mem' = [mem EXCEPT ![n].timeout = t]
        /\ Touched(n, "edit")
        /\ hist' = [hist EXCEPT ![n] = Edited(TripOther(@))]
        /\ UNCHANGED <<store, scheduled, madeFor, nextId, req>>

\* record.unschedule(), called on its own as the tests do.  again: the
\* operation before it was a completed unschedule of the same record.
Unschedule(n) ==
    \E fail \in {"none", "contains", "cancel"} :
        LET r == unschedule(scheduled, mem[n], fail) IN
            /\ mem' = [mem EXCEPT ![n] = r.obj]
            /\ scheduled' = r.sch
            /\ last' = [op |-> "unschedule", name |-> n, result |-> r.result,
                        calls |-> r.calls, old |-> mem[n].job_id,
                        value |-> TRUE,
                        again |-> (last.op = "unschedule" /\ last.name = n
                                   /\ last.result = "ok")]
            /\ hist' = [hist EXCEPT ![n] = Edited(TripOther(@))]
            /\ UNCHANGED <<store, madeFor, nextId, req>>

\* record.schedule(), called on its own as the tests do.  value: what it
\* returned.
Schedule(n) ==
    \E fail \in {"none", "enqueue"} :
        /\ nextId <= MaxHandles
        /\ LET r == schedule(scheduled, mem[n], nextId, fail) IN
            /\ mem' = [mem EXCEPT ![n] = r.obj]
            /\ scheduled' = r.sch
            /\ madeFor' = IF r.made THEN [madeFor EXCEPT ![nextId] = n]
                          ELSE madeFor
            /\ nextId' = IF r.made THEN nextId + 1 ELSE nextId
            /\ last' = [op |-> "schedule", name |-> n, result |-> r.result,
                        calls |-> r.calls, old |-> mem[n].job_id,
                        value |-> r.made, sent |-> timeout_kwarg(mem[n])]
            /\ hist' = [hist EXCEPT ![n] = Edited(TripOther(@))]
            /\ UNCHANGED <<store, req>>

\* record.is_scheduled(), as the admin list shows it.  value: what it
\* returned.
IsScheduled(n) ==
    \E fail \in {"none", "contains"} :
        /\ last' = [op |-> "is_scheduled", name |-> n,
                    result |-> IF mem[n].queue \notin Queues THEN "KeyError"
                               ELSE IF fail = "contains"
                               THEN "BackendUnavailable" ELSE "ok",
                    calls |-> IF mem[n].queue \notin Queues THEN <<>>
                              ELSE <<"contains">>,
                    old |-> mem[n].job_id,
                    value |-> /\ mem[n].queue \in Queues
                              /\ fail = "none"
                              /\ is_scheduled(scheduled, mem[n])]
        /\ UNCHANGED <<mem, store, scheduled, madeFor, nextId, hist, req>>

Next ==
    \E n \in Names :
        \/ Save(n)
        \/ Delete(n)
        \/ SetEnabled(n)
        \/ SetQueue(n)
        \/ SetCallable(n)
        \/ SetWhen(n)
        \/ Reload(n)

Spec == Init /\ [][Next]_vars

\* the form validates a scheduled_time at the instant now
CleanScheduledTime ==
    \E data \in Times, now \in Times :
        /\ last' = [op |-> "clean_scheduled_time", name |-> "",
                    result |-> clean_scheduled_time(data, now),
                    calls |-> <<>>, old |-> None, data |-> data, now |-> now]
        /\ UNCHANGED <<mem, store, scheduled, madeFor, nextId, hist, req>>

\* interval_seconds() of a RepeatableJob with interval m and interval_unit
IntervalSeconds ==
    \E iv \in Intervals :
        /\ last' = [op |-> "interval_seconds", name |-> "",
                    result |-> interval_seconds(iv[1], iv[2]).raised,
                    calls |-> <<>>, old |-> None,
                    interval |-> iv[1], unit |-> iv[2],
                    seconds |-> interval_seconds(iv[1], iv[2]).seconds]
        /\ UNCHANGED <<mem, store, scheduled, madeFor, nextId, hist, req>>

NextPure == CleanScheduledTime \/ IntervalSeconds

SpecPure == Init /\ [][NextPure]_vars

\* ------------------------------------------------ requests side by side
\* cancel that empties the scheduler of the queue
cancel_everything(sch, o) == [sch EXCEPT ![o.queue] = {}]

\* self.scheduler().cancel(self.job_id)
cancel(sch, o) == [sch EXCEPT ![o.queue] = @ \ {o.job_id}]

\* the statement a request reaches when unschedule has returned: save goes
\* on to schedule when enabled, and otherwise to the database
AfterUnschedule(r) ==
    IF r.op = "save" /\ r.obj.enabled THEN "enqueue" ELSE "write"

InitConc ==
    /\ mem = [n \in Names |-> NewJob("ScheduledJob", "default")]
    /\ store = [n \in Records |-> Absent]
    /\ scheduled = [q \in Queues |-> {}]
    /\ madeFor = [h \in Handles |-> ""]
    /\ nextId = 1
    /\ last = [op |-> "none", name |-> "", result |-> "ok", calls |-> <<>>,
               old |-> None]
    /\ hist = [n \in Names |-> [trip |-> "new", first |-> None,
                                retry |-> "none"]]
    /\ req = [p \in Requests |-> Idle]

\* request p loads record n (or builds it when it has no row), sets enabled
\* and calls save, or calls delete on the loaded instance
Begin(p) ==
    /\ req[p].pc = "idle"
    /\ \E n \in Records, op \in {"save", "delete"}, en \in BOOLEAN :
        /\ op = "delete" => (store[n] # Absent /\ en = store[n].enabled)
        /\ req' = [req EXCEPT ![p] =
               [pc |-> "contains", op |-> op, name |-> n,
                insert |-> (store[n] = Absent), live |-> FALSE,
                obj |-> IF store[n] = Absent
                        THEN [NewJob("ScheduledJob", "default")
                                  EXCEPT !.enabled = en]
                        ELSE [store[n] EXCEPT !.enabled = en]]]
    /\ UNCHANGED <<mem, store, scheduled, madeFor, nextId, last, hist>>

\* unschedule: "if self.is_scheduled():"; when it is False, job_id = None
Contains(p) ==
    /\ req[p].pc = "contains"
    /\ LET r == req[p] IN
        req' = [req EXCEPT ![p] =
            IF is_scheduled(scheduled, r.obj)
            THEN [r EXCEPT !.pc = "cancel", !.live = TRUE]
            ELSE [r EXCEPT !.pc = AfterUnschedule(r), !.obj.job_id = None]]
    /\ UNCHANGED <<mem, store, scheduled, madeFor, nextId, last, hist>>

\* unschedule: the cancel, then job_id = None
Cancel(p) ==
    /\ req[p].pc = "cancel"
    /\ scheduled' = cancel(scheduled, req[p].obj)
    /\ LET r == req[p] IN
        req' = [req EXCEPT ![p] =
            [r EXCEPT !.pc = AfterUnschedule(r), !.obj.job_id = None]]
    /\ UNCHANGED <<mem, store, madeFor, nextId, last, hist>>

\* save: self.schedule()
Enqueue(p) ==
    /\ req[p].pc = "enqueue"
    /\ nextId <= MaxHandles
    /\ LET s == schedule(scheduled, req[p].obj, nextId, "none") IN
        /\ scheduled' = s.sch
        /\ madeFor' = IF s.made THEN [madeFor EXCEPT ![nextId] = req[p].name]
                      ELSE madeFor
        /\ nextId' = IF s.made THEN nextId + 1 ELSE nextId
        /\ req' = [req EXCEPT ![p].pc = "write", ![p].obj = s.obj]
    /\ UNCHANGED <<mem, store, last, hist>>

\* super().save() or super().delete(): the insert of a name that has a row
\* by now is refused (name is unique); an update writes the row
Write(p) ==
    /\ req[p].pc = "write"
    /\ store' = IF req[p].op = "delete"
                THEN [store EXCEPT ![req[p].name] = Absent]
                ELSE IF req[p].insert /\ store[req[p].name] # Absent
                THEN store
                ELSE [store EXCEPT ![req[p].name] = req[p].obj]
    /\ req' = [req EXCEPT ![p] = Idle]
    /\ UNCHANGED <<mem, scheduled, madeFor, nextId, last, hist>>

NextConc ==
    \E p \in Requests :
        \/ Begin(p)
        \/ Contains(p)
        \/ Cancel(p)
        \/ Enqueue(p)
        \/ Write(p)

SpecConc == InitConc /\ [][NextConc]_vars

\* the methods of a record called one by one
NextSteps ==
    \E n \in Names :
        \/ Save(n)
        \/ Delete(n)
        \/ Unschedule(n)
        \/ Schedule(n)
        \/ IsScheduled(n)
        \/ SetEnabled(n)
        \/ SetQueue(n)

SpecSteps == Init /\ [][NextSteps]_vars

\* saves of a record whose timeout is edited
NextDispatch ==
    \E n \in Names :
        \/ Save(n)
        \/ SetEnabled(n)
        \/ SetQueue(n)
        \/ SetTimeout(n)

SpecDispatch == Init /\ [][NextDispatch]_vars

\* ------------------------------------------------------------ vocabulary
\* the live registrations made for record n, over all schedulers
Live(n) ==
    {h \in Handles : madeFor[h] = n /\ \E q \in Queues : h \in scheduled[q]}

\* call c is among the calls of the last operation
Called(c) == \E i \in 1..Len(last.calls) : last.calls[i] = c

Enqueued == Called("enqueue_at") \/ Called("schedule") \/ Called("cron")

\* the last operation was op on record n and it completed
Completed(op, n) == last.op = op /\ last.name = n /\ last.result = "ok"

\* models.py clean (callable resolves, queue is configured), with
\* forms.py clean_scheduled_time and CronJob.clean_cron_string (when)
clean(o) == o.callable = "ok" /\ o.queue \in Queues /\ o.when = "ok"

\* ---------------------------------------------------------------- claims

\* C1 (P1, no double registration): at any time a record has at most one
\* live registration, counted over the schedulers of all queues.
NoDoubleRegistration == \A n \in Names : Cardinality(Live(n)) <= 1

\* C2 (handle invariant): right after a completed save or delete, job_id is
\* set if and only if the backend holds a live registration of the record.
HandleIffLive ==
    \A n \in Names :
        (Completed("save", n) \/ Completed("delete", n))
            => (mem[n].job_id # None <=> Live(n) # {})

\* C3 (no orphans): after a completed save or delete every live registration
\* is the one named by the job_id of its record as stored.
NoOrphanedRegistration ==
    \A n \in Names :
        (Completed("save", n) \/ Completed("delete", n))
            => \A h \in Handles :
                   (\E q \in Queues : h \in scheduled[q])
                       => /\ madeFor[h] \in Names
                          /\ store[madeFor[h]] # Absent
                          /\ store[madeFor[h]].job_id = h

\* C4 (P2, disabled implies unregistered): a completed save of a disabled
\* record leaves job_id None in the instance and in the stored row.
DisabledImpliesUnregistered ==
    \A n \in Names :
        (Completed("save", n) /\ ~mem[n].enabled)
            => /\ mem[n].job_id = None
               /\ store[n] # Absent
               /\ store[n].job_id = None

\* C4 witness: a disabled record that held a live registration was saved
DisabledSavedWhileRegistered ==
    \E n \in Names :
        /\ Completed("save", n)
        /\ ~mem[n].enabled
        /\ last.old # None
        /\ Called("cancel")

\* C5 (partial sync failure): when cancel succeeded and the enqueue then met
\* a connection error, job_id is None, nothing was written, and the stored
\* row does not name a registration that is no longer live.
PartialFailureLeavesStoreConsistent ==
    \A n \in Names :
        (/\ last.op = "save" /\ last.name = n
         /\ last.result = "BackendUnavailable"
         /\ Called("cancel") /\ Enqueued)
            => /\ mem[n].job_id = None
               /\ ~Called("db_save")
               /\ store[n] # Absent
                      => (store[n].job_id = None \/ store[n].job_id \in Live(n))

\* C6 (sync before write): a save writes the row only as its last call,
\* after the sync completed, and writes nothing when a sync step failed; the
\* row is then the instance as the sync left it, or the row as it was.
SyncBeforeWrite ==
    [][\A n \in Names :
          (last'.op = "save" /\ last'.name = n)
              => IF last'.result = "ok"
                 THEN /\ last'.calls[Len(last'.calls)] = "db_save"
                      /\ \A i \in 1..(Len(last'.calls) - 1) :
                             last'.calls[i] # "db_save"
                      /\ store'[n] = mem'[n]
                 ELSE /\ \A i \in 1..Len(last'.calls) :
                             last'.calls[i] # "db_save"
                      /\ store' = store]_vars

\* C6 witness: a save of a stored record failed after its cancel
SaveFailedAfterCancel ==
    \E n \in Names :
        /\ last.op = "save" /\ last.name = n
        /\ last.result = "BackendUnavailable"
        /\ Called("cancel") /\ Enqueued
        /\ store[n] # Absent

\* C7 (P7, toggle round trip): the first save of a new enabled record sets
\* job_id; disabling and saving leaves job_id None and the first job id in no
\* scheduler; enabling and saving sets a job id that differs from the first
\* and is in the scheduler of the record's queue.
ToggleRoundTrip ==
    \A n \in Names :
        /\ hist[n].trip = "on" => mem[n].job_id # None
        /\ hist[n].trip = "off"
               => /\ mem[n].job_id = None
                  /\ \A q \in Queues : hist[n].first \notin scheduled[q]
        /\ hist[n].trip = "back"
               => /\ mem[n].job_id # None
                  /\ mem[n].job_id # hist[n].first
                  /\ is_scheduled(scheduled, mem[n])

\* C7 witness: the round trip was made
RoundTripMade == \E n \in Names : hist[n].trip = "back" /\ hist[n].first # None

\* C8 (delete): after a completed delete the row is gone and the backend
\* holds no live registration of the record.
DeleteLeavesNothing ==
    \A n \in Names :
        Completed("delete", n) => store[n] = Absent /\ Live(n) = {}

\* C9 (validation gate): a save of a record that fails validation makes no
\* cancel, no enqueue and no database write.
ValidationGate ==
    \A n \in Names :
        (last.op = "save" /\ last.name = n /\ ~clean(mem[n]))
            => ~Called("cancel") /\ ~Enqueued /\ ~Called("db_save")

\* C10 (recovery by retry): the save that completes after a save of the
\* enabled record met a connection error ends with exactly one live
\* registration, the one the stored job_id names.
RecoveryByRetry ==
    \A n \in Names :
        (Completed("save", n) /\ hist[n].retry = "done" /\ mem[n].enabled)
            => /\ Cardinality(Live(n)) = 1
               /\ store[n] # Absent
               /\ store[n].job_id \in Live(n)

\* C20 (delete under backend failure): a delete whose liveness query or
\* cancel meets a connection error raises it, removes no row and leaves
\* job_id as it was, in the instance and in the row.
DeleteFailureKeepsRecord ==
    [][\A n \in Names :
          (/\ last'.op = "delete" /\ last'.name = n
           /\ last'.result = "BackendUnavailable")
              => /\ store' = store
                 /\ store'[n] # Absent
                 /\ mem'[n] = mem[n]
                 /\ scheduled' = scheduled]_vars

\* C20 witness: the cancel of a delete of a registered record failed
DeleteFailedAtCancel ==
    \E n \in Names :
        /\ last.op = "delete" /\ last.name = n
        /\ last.result = "BackendUnavailable"
        /\ Called("cancel")
        /\ mem[n].job_id # None
        /\ store[n] # Absent

\* call c is among calls
Has(calls, c) == \E i \in 1..Len(calls) : calls[i] = c

\* record n is not registered: job_id is None or in no scheduler
NotRegistered(n) ==
    mem[n].job_id = None \/ \A q \in Queues : mem[n].job_id \notin scheduled[q]

IsScheduledReportsLive ==
    [][\A n \in Names :
          (last'.op = "is_scheduled" /\ last'.name = n)
              => /\ UNCHANGED <<mem, store, scheduled, madeFor, nextId>>
                 /\ last'.result = "ok"
                        => /\ last'.value
                               <=> /\ mem[n].job_id # None
                                   /\ mem[n].job_id \in scheduled[mem[n].queue]
                           /\ last'.value => mem[n].job_id \in Live(n)]_vars

\* C13 witness: is_scheduled returned True for a registered record
ReportedScheduled ==
    \E n \in Names :
        /\ last.op = "is_scheduled" /\ last.name = n /\ last.result = "ok"
        /\ last.value
        /\ mem[n].job_id \in Live(n)

VariantDispatch ==
    \A n \in Names :
        (Completed("save", n) /\ mem[n].enabled)
            => /\ Cardinality({i \in 1..Len(last.calls) :
                      last.calls[i] \in {"enqueue_at", "schedule", "cron"}}) = 1
               /\ mem[n].cls = "ScheduledJob" => Called("enqueue_at")
               /\ mem[n].cls = "RepeatableJob" => Called("schedule")
               /\ mem[n].cls = "CronJob" => Called("cron")
               /\ mem[n].timeout # NoTimeout => last.sent = mem[n].timeout
               /\ mem[n].job_id = nextId - 1
               /\ mem[n].job_id \in scheduled[mem[n].queue]
               /\ madeFor[mem[n].job_id] = n

\* C17 (cancel precedes every re-registration): a completed save of a record
\* that held a job_id called cancel, and called it before its enqueue call;
\* hence after an enqueue the job just made is the only live job of the
\* record.
CancelPrecedesEnqueue ==
    \A n \in Names :
        Completed("save", n)
            => /\ last.old # None => Called("cancel")
               /\ \A i, j \in 1..Len(last.calls) :
                      (/\ last.calls[i] = "cancel"
                       /\ last.calls[j] \in {"enqueue_at", "schedule", "cron"})
                          => i < j
               /\ Enqueued => Live(n) = {mem[n].job_id}

\* C15 (P5, future-time validation): clean_scheduled_time accepts the
\* scheduled_time exactly when it is strictly after the instant of the
\* validation; a past one and one equal to that instant are rejected.
FutureTimeOnly ==
    last.op = "clean_scheduled_time"
        => (last.result = "ok" <=> last.data > last.now)

InFlight(p) == req[p].pc # "idle"

\* C11 (same-record serialization): two requests on the same record never
\* run at the same time, and when no request runs a record has at most one
\* live job, the one its row names.
SameRecordSerialized ==
    /\ \A p, q \in Requests :
           (p # q /\ InFlight(p) /\ InFlight(q)) => req[p].name # req[q].name
    /\ (\A p \in Requests : ~InFlight(p))
           => \A n \in Records :
                  /\ Cardinality(Live(n)) <= 1
                  /\ Live(n) # {}
                         => (store[n] # Absent /\ store[n].job_id \in Live(n))
                  /\ (store[n] # Absent /\ store[n].job_id # None)
                         => store[n].job_id \in Live(n)

\* C14 (record independence): a step of a request on one record leaves the
\* row and the live jobs of every other record, and the instance a request
\* holds of another record, as they were.
RecordIndependence ==
    [][\A p \in Requests, m \in Records :
          (req'[p] # req[p] /\ req[p].name # m /\ req'[p].name # m)
              => /\ store'[m] = store[m]
                 /\ {h \in Handles : /\ madeFor'[h] = m
                                     /\ \E q \in Queues : h \in scheduled'[q]}
                        = Live(m)
                 /\ \A q \in Requests :
                        req[q].name = m => req'[q] = req[q]]_vars

\* C14 witness: a request cancelled the job of its record while the other
\* record has a live job in the same scheduler
CancelledBesideOther ==
    \E p \in Requests, m \in Records :
        /\ req[p].pc \in {"enqueue", "write"}
        /\ req[p].live
        /\ req[p].name # m
        /\ Live(m) # {}
        /\ store[m] # Absent
====
